---- MODULE Spec2Model ----
(***************************************************************************)
(* knapsack-solver.py: interactive collection of a single-constraint       *)
(* integer maximisation problem (get_input_interactively) and its solution *)
(* through PuLP (solveProblem).                                            *)
(*                                                                         *)
(* Python lists are sequences: list[i] is seq[i + 1].  The dict            *)
(* extra_constraints is a function from its keys (0-based variable         *)
(* indexes) to <<kind, threshold>> pairs.                                   *)
(***************************************************************************)
EXTENDS Integers, Sequences, FiniteSets, TLC

VARIABLES
    pc,                       \* the statement the program is at
    retry,                    \* TRUE inside get_integer_input's "Retry?" prompt
    num_var,
    objective_coefficients,
    constraint_coefficients,
    capacity,
    extra_constraints,
    index,                    \* locals of the extra-constraint loop
    input_constraint_type,
    constraint,
    problem,                  \* the LpProblem of solveProblem
    varValue,                 \* LpVariable.varValue of x_0 .. x_(n-1)
    solution                  \* the ProblemSolution solveProblem returns

vars == <<pc, retry, num_var, objective_coefficients, constraint_coefficients,
          capacity, extra_constraints, index, input_constraint_type,
          constraint, problem, varValue, solution>>

inputVars == <<num_var, objective_coefficients, constraint_coefficients,
               capacity, extra_constraints, index, input_constraint_type,
               constraint>>

solverVars == <<problem, varValue, solution>>

----------------------------------------------------------------------------
(* Bounds and input domains *)

MaxVars == 2            \* most variables a modelled problem has
MaxCandidate == 3       \* largest value of an assignment a result is compared with

InputInts == -1 .. MaxVars          \* the integers a user types
NumVarValues == -1 .. MaxVars
CoefValues == {-1, 1}
CapacityValues == {-1, 1}
IndexValues == -1 .. MaxVars
ThresholdValues == {0, 1}

Profits == {-1, 2}                  \* the ProblemInputs solveProblem is run on
Weights == {0, 1, 2}
Capacities == {0, 3}
Thresholds == {2}

----------------------------------------------------------------------------
(* Helpers *)

range(n) == 0 .. (n - 1)

EmptyDict == [k \in {} |-> <<"", 0>>]

\* d[key] = value
MutPut(d, key, value) ==
    [k \in DOMAIN d \cup {key} |-> IF k \in DOMAIN d THEN d[k] ELSE value]
Put(d, key, value) ==
    [k \in DOMAIN d \cup {key} |-> IF k = key THEN value ELSE d[k]]

\* int(usr_input): the text of an integer converts, anything else raises ValueError
IsIntegerText(s) == \E n \in InputInts : ToString(n) = s
int(s) == CHOOSE n \in InputInts : ToString(n) = s

\* what a user may type at an integer prompt
Lines(values) == {ToString(v) : v \in values} \cup {"abc"}

\* askConfirm: "again" stands for the re-prompt after an invalid answer
ConfirmLines == {"y", "n", "exit", "maybe"}
askConfirm(usr_input) ==
    CASE usr_input = "y" -> "True"
      [] usr_input = "n" -> "False"
      [] usr_input = "exit" -> "exit"
      [] OTHER -> "again"

\* index >= len(objective_coefficients) or index < 0
MutIndexOutOfRange(i, coefficients) == i > Len(coefficients) \/ i < 0
IndexOutOfRange(i, coefficients) == i >= Len(coefficients) \/ i < 0

----------------------------------------------------------------------------
(* get_integer_input *)

\* except ValueError: the error is printed and askConfirm("Retry? ...") follows
ValueError ==
    /\ retry' = TRUE
    /\ UNCHANGED <<pc, inputVars, solverVars>>

\* askConfirm("Retry? ..."): y prompts again, n and exit leave the program
RetryPrompt ==
    /\ retry
    /\ \E usr_input \in ConfirmLines :
          LET answer == askConfirm(usr_input) IN
          \/ /\ answer = "True"
             /\ retry' = FALSE
             /\ UNCHANGED <<pc, inputVars, solverVars>>
          \/ /\ answer \in {"False", "exit"}
             /\ retry' = FALSE
             /\ pc' = "exit"
             /\ UNCHANGED <<inputVars, solverVars>>
          \/ /\ answer = "again"
             /\ UNCHANGED vars

----------------------------------------------------------------------------
(* get_input_interactively *)

AcceptNumVar(number) ==
    /\ num_var' = number
    /\ pc' = IF number > 0 THEN "objective" ELSE "capacity"
    /\ UNCHANGED <<objective_coefficients, constraint_coefficients, capacity,
                   extra_constraints, index, input_constraint_type, constraint>>

ReadNumVar ==
    /\ pc = "num_var"
    /\ ~retry
    /\ \E usr_input \in Lines(NumVarValues) :
          IF IsIntegerText(usr_input)
          THEN /\ AcceptNumVar(int(usr_input))
               /\ UNCHANGED <<retry, solverVars>>
          ELSE ValueError

AcceptObjective(number) ==
    /\ objective_coefficients' = Append(objective_coefficients, number)
    /\ pc' = IF Len(objective_coefficients) + 1 < num_var
             THEN "objective" ELSE "constraint_coef"
    /\ UNCHANGED <<num_var, constraint_coefficients, capacity,
                   extra_constraints, index, input_constraint_type, constraint>>

ReadObjective ==
    /\ pc = "objective"
    /\ ~retry
    /\ \E usr_input \in Lines(CoefValues) :
          IF IsIntegerText(usr_input)
          THEN /\ AcceptObjective(int(usr_input))
               /\ UNCHANGED <<retry, solverVars>>
          ELSE ValueError

AcceptConstraintCoef(number) ==
    /\ constraint_coefficients' = Append(constraint_coefficients, number)
    /\ pc' = IF Len(constraint_coefficients) + 1 < num_var
             THEN "constraint_coef" ELSE "capacity"
    /\ UNCHANGED <<num_var, objective_coefficients, capacity,
                   extra_constraints, index, input_constraint_type, constraint>>

ReadConstraintCoef ==
    /\ pc = "constraint_coef"
    /\ ~retry
    /\ \E usr_input \in Lines(CoefValues) :
          IF IsIntegerText(usr_input)
          THEN /\ AcceptConstraintCoef(int(usr_input))
               /\ UNCHANGED <<retry, solverVars>>
          ELSE ValueError

AcceptCapacity(number) ==
    /\ capacity' = number
    /\ pc' = "ask_more"
    /\ UNCHANGED <<num_var, objective_coefficients, constraint_coefficients,
                   extra_constraints, index, input_constraint_type, constraint>>

ReadCapacity ==
    /\ pc = "capacity"
    /\ ~retry
    /\ \E usr_input \in Lines(CapacityValues) :
          IF IsIntegerText(usr_input)
          THEN /\ AcceptCapacity(int(usr_input))
               /\ UNCHANGED <<retry, solverVars>>
          ELSE ValueError

\* while askConfirm("Do you want to add or modify extra constraints? ...");
\* leaving the loop returns the ProblemInput, which __main__ hands to solveProblem
AskMore ==
    /\ pc = "ask_more"
    /\ \E usr_input \in ConfirmLines :
          LET answer == askConfirm(usr_input) IN
          \/ /\ answer = "True"
             /\ pc' = "index"
             /\ UNCHANGED <<retry, inputVars, solverVars>>
          \/ /\ answer = "False"
             /\ pc' = "solveProblem"
             /\ UNCHANGED <<retry, inputVars, solverVars>>
          \/ /\ answer = "exit"
             /\ pc' = "exit"
             /\ UNCHANGED <<retry, inputVars, solverVars>>
          \/ /\ answer = "again"
             /\ UNCHANGED vars

\* the statement reached once the "already set" question is out of the way
AfterRangeCheck(i) ==
    IF IndexOutOfRange(i, objective_coefficients)
    THEN "ask_more" ELSE "constraint_type"

AcceptIndex(number) ==
    /\ index' = number
    /\ pc' = IF number \in DOMAIN extra_constraints
             THEN "ask_modify" ELSE AfterRangeCheck(number)
    /\ UNCHANGED <<num_var, objective_coefficients, constraint_coefficients,
                   capacity, extra_constraints, input_constraint_type, constraint>>

ReadIndex ==
    /\ pc = "index"
    /\ ~retry
    /\ \E usr_input \in Lines(IndexValues) :
          IF IsIntegerText(usr_input)
          THEN /\ AcceptIndex(int(usr_input))
               /\ UNCHANGED <<retry, solverVars>>
          ELSE ValueError

\* askConfirm("Do you want to modify the constraint? ...")
AskModify ==
    /\ pc = "ask_modify"
    /\ \E usr_input \in ConfirmLines :
          LET answer == askConfirm(usr_input) IN
          \/ /\ answer = "True"
             /\ pc' = AfterRangeCheck(index)
             /\ UNCHANGED <<retry, inputVars, solverVars>>
          \/ /\ answer = "False"
             /\ pc' = "ask_more"
             /\ UNCHANGED <<retry, inputVars, solverVars>>
          \/ /\ answer = "exit"
             /\ pc' = "exit"
             /\ UNCHANGED <<retry, inputVars, solverVars>>
          \/ /\ answer = "again"
             /\ UNCHANGED vars

ConstraintTypeLines == {"<=", ">=", "="}

ReadConstraintType ==
    /\ pc = "constraint_type"
    /\ \E usr_input \in ConstraintTypeLines :
          /\ input_constraint_type' = usr_input
          /\ pc' = IF usr_input # "<=" /\ usr_input # ">="
                   THEN "constraint_type" ELSE "constraint_value"
    /\ UNCHANGED <<retry, num_var, objective_coefficients,
                   constraint_coefficients, capacity, extra_constraints, index,
                   constraint, solverVars>>

AcceptConstraintValue(number) ==
    /\ constraint' = number
    /\ extra_constraints' =
           Put(extra_constraints, index, <<input_constraint_type, number>>)
    /\ pc' = "ask_more"
    /\ UNCHANGED <<num_var, objective_coefficients, constraint_coefficients,
                   capacity, index, input_constraint_type>>

ReadConstraintValue ==
    /\ pc = "constraint_value"
    /\ ~retry
    /\ \E usr_input \in Lines(ThresholdValues) :
          IF IsIntegerText(usr_input)
          THEN /\ AcceptConstraintValue(int(usr_input))
               /\ UNCHANGED <<retry, solverVars>>
          ELSE ValueError

----------------------------------------------------------------------------
(* State before any input, and the input-collection specification *)

NoProblem == [objective |-> <<>>, constraints |-> {}, status |-> "Not Solved"]
NoSolution == [decision_variables |-> <<>>, objective_variables |-> 0]

InitInput ==
    /\ pc = "num_var"
    /\ retry = FALSE
    /\ num_var = 0
    /\ objective_coefficients = <<>>
    /\ constraint_coefficients = <<>>
    /\ capacity = 0
    /\ extra_constraints = EmptyDict
    /\ index = 0
    /\ input_constraint_type = ""
    /\ constraint = 0
    /\ problem = NoProblem
    /\ varValue = <<>>
    /\ solution = NoSolution

NextInput ==
    \/ ReadNumVar
    \/ ReadObjective
    \/ ReadConstraintCoef
    \/ ReadCapacity
    \/ AskMore
    \/ ReadIndex
    \/ AskModify
    \/ ReadConstraintType
    \/ ReadConstraintValue
    \/ RetryPrompt

SpecInput == InitInput /\ [][NextInput]_vars

----------------------------------------------------------------------------
(* solveProblem: the LpProblem it builds *)

\* sum(coefficients[v] * x[v] for v in variables)
RECURSIVE SumOver(_, _, _)
SumOver(variables, coefficients, x) ==
    IF variables = {} THEN 0
    ELSE LET v == CHOOSE u \in variables : TRUE
         IN coefficients[v] * x[v] + SumOver(variables \ {v}, coefficients, x)

value(expression, x) == SumOver(DOMAIN expression, expression, x)

\* the LpAffineExpression sum(coefficients[i] * variables[i] for i in range(len(coefficients)))
AffineExpression(coefficients) ==
    [v \in range(Len(coefficients)) |-> coefficients[v + 1]]

\* variables[key] as an expression over range(n)
Single(key, n) == [v \in range(n) |-> IF v = key THEN 1 ELSE 0]

\* problem += variables[key] <= constraint_value   (">=" likewise)
ExtraConstraints(extra, n) ==
    {[expression |-> Single(key, n), sense |-> extra[key][1], rhs |-> extra[key][2]] :
        key \in {k \in DOMAIN extra : extra[k][1] \in {"<=", ">="}}}

\* problem += sum(constraint_coefficients[i] * variables[i] ...) <= capacity
MainConstraint(coefficients, cap) ==
    [expression |-> AffineExpression(coefficients), sense |-> "<=", rhs |-> cap]

\* problem += sum(objective_coefficients[i] * variables[i] ...)
MutObjective(oc, cc) == AffineExpression(cc)
Objective(oc, cc) == AffineExpression(oc)

BuildProblem ==
    /\ pc = "solveProblem"
    /\ problem' =
          [objective |-> Objective(objective_coefficients, constraint_coefficients),
           constraints |->
               ExtraConstraints(extra_constraints, Len(objective_coefficients))
                   \cup {MainConstraint(constraint_coefficients, capacity)},
           status |-> "Not Solved"]
    /\ pc' = "solve"
    /\ UNCHANGED <<retry, inputVars, varValue, solution>>

----------------------------------------------------------------------------
(* problem.solve(): the integer program PuLP hands to its solver.  Every    *)
(* variable is an integer with lowBound = 0; LpMaximize.  The constraint    *)
(* coefficients of the modelled ProblemInputs are non-negative, which is    *)
(* what UpperLimit and IsUnbounded rely on.                                 *)

Min(S) == CHOOSE m \in S : \A k \in S : m <= k
Max(S) == CHOOSE m \in S : \A k \in S : k <= m

Holds(c, x) ==
    IF c.sense = "<=" THEN value(c.expression, x) <= c.rhs
                      ELSE value(c.expression, x) >= c.rhs

\* the limits the "<=" constraints put on variable v on their own
Limits(lp, v) ==
    {c.rhs \div c.expression[v] :
        c \in {d \in lp.constraints : d.sense = "<=" /\ d.expression[v] > 0}}

\* room for a variable nothing limits: enough to meet every ">=" constraint
FreeRoom(lp) ==
    Max({0} \cup {c.rhs : c \in {d \in lp.constraints : d.sense = ">="}})

UpperLimit(lp, v) ==
    IF Limits(lp, v) = {} THEN FreeRoom(lp) ELSE Min(Limits(lp, v))

\* the integer points that can be feasible
Box(lp) ==
    LET variables == DOMAIN lp.objective
        top == Max({0} \cup {UpperLimit(lp, v) : v \in variables})
    IN {x \in [variables -> 0 .. top] : \A v \in variables : x[v] <= UpperLimit(lp, v)}

FeasiblePoints(lp) == {x \in Box(lp) : \A c \in lp.constraints : Holds(c, x)}

\* raising v alone keeps every constraint and raises the objective
IsUnbounded(lp) ==
    /\ FeasiblePoints(lp) # {}
    /\ \E v \in DOMAIN lp.objective :
          /\ lp.objective[v] > 0
          /\ \A c \in lp.constraints :
                IF c.sense = "<=" THEN c.expression[v] <= 0 ELSE c.expression[v] >= 0

LpStatus(lp) ==
    IF FeasiblePoints(lp) = {} THEN "Infeasible"
    ELSE IF IsUnbounded(lp) THEN "Unbounded"
    ELSE "Optimal"

OptimalPoints(lp) ==
    LET feasible == FeasiblePoints(lp)
    IN {x \in feasible :
           \A y \in feasible : value(lp.objective, y) <= value(lp.objective, x)}

\* what the variables hold after solve(): an optimum when there is one; the
\* code reads varValue whatever the status, and without an optimum the
\* values are whatever the solver left behind
SolverValues(lp) ==
    IF LpStatus(lp) = "Optimal" THEN OptimalPoints(lp)
    ELSE [DOMAIN lp.objective -> {0, 1}]

Solve ==
    /\ pc = "solve"
    /\ problem' = [problem EXCEPT !.status = LpStatus(problem)]
    /\ varValue' \in SolverValues(problem)
    /\ pc' = "return"
    /\ UNCHANGED <<retry, inputVars, solution>>

\* return ProblemSolution([variables[i].varValue for i in range(len(...))],
\*                        problem.objective.value())
ProblemSolution(decision_variables, objective_variables) ==
    [decision_variables |-> decision_variables,
     objective_variables |-> objective_variables]

Return ==
    /\ pc = "return"
    /\ solution' =
          ProblemSolution(
              [i \in 1 .. Len(objective_coefficients) |-> varValue[i - 1]],
              value(problem.objective, varValue))
    /\ pc' = "done"
    /\ UNCHANGED <<retry, inputVars, problem, varValue>>

----------------------------------------------------------------------------
(* The ProblemInputs solveProblem is run on *)

BoundMaps(n) ==
    UNION {[S -> {"<=", ">="} \X Thresholds] : S \in SUBSET range(n)}

Example1 ==
    [objective_coefficients |-> <<60, 100, 120>>,
     constraint_coefficients |-> <<10, 20, 30>>,
     capacity |-> 50,
     extra_constraints |-> EmptyDict]

SolveInputs ==
    {Example1} \cup
    UNION {[objective_coefficients : [1 .. n -> Profits],
            constraint_coefficients : [1 .. n -> Weights],
            capacity : Capacities,
            extra_constraints : BoundMaps(n)] : n \in 1 .. MaxVars}

InitSolve ==
    /\ pc = "solveProblem"
    /\ retry = FALSE
    /\ \E input \in SolveInputs :
          /\ num_var = Len(input.objective_coefficients)
          /\ objective_coefficients = input.objective_coefficients
          /\ constraint_coefficients = input.constraint_coefficients
          /\ capacity = input.capacity
          /\ extra_constraints = input.extra_constraints
    /\ index = 0
    /\ input_constraint_type = ""
    /\ constraint = 0
    /\ problem = NoProblem
    /\ varValue = <<>>
    /\ solution = NoSolution

NextSolve ==
    \/ BuildProblem
    \/ Solve
    \/ Return

SpecSolve == InitSolve /\ [][NextSolve]_vars

----------------------------------------------------------------------------
(* The properties, stated on the ProblemInput and on what solveProblem      *)
(* returns, independently of the LpProblem                                  *)

RECURSIVE Dot(_, _)
Dot(coefficients, x) ==
    IF coefficients = <<>> THEN 0
    ELSE Head(coefficients) * Head(x) + Dot(Tail(coefficients), Tail(x))

\* x is a list of values, one per variable
SatisfiesExtraBounds(x) ==
    \A k \in DOMAIN extra_constraints :
        IF extra_constraints[k][1] = "<="
        THEN x[k + 1] <= extra_constraints[k][2]
        ELSE x[k + 1] >= extra_constraints[k][2]

IsFeasibleAssignment(x) ==
    /\ \A i \in DOMAIN x : x[i] >= 0
    /\ SatisfiesExtraBounds(x)
    /\ Dot(constraint_coefficients, x) <= capacity

Candidates == [1 .. Len(objective_coefficients) -> 0 .. MaxCandidate]

IsValidProblem ==
    /\ Len(objective_coefficients) = Len(constraint_coefficients)
    /\ \A i \in DOMAIN constraint_coefficients : constraint_coefficients[i] >= 0
    /\ capacity >= 0
    /\ DOMAIN extra_constraints \subseteq range(Len(objective_coefficients))

\* solveProblem has returned a ProblemSolution that carries a value for every
\* variable and an objective: the only shape of result the program has, which
\* __main__ prints as the optimum
ReturnsValuesAndObjective ==
    /\ pc = "done"
    /\ DOMAIN solution.decision_variables = 1 .. Len(objective_coefficients)
    /\ solution.objective_variables \in Int

\* some "at least k" bound alone overflows the capacity
AtLeastOverflows ==
    \E k \in DOMAIN extra_constraints :
        /\ extra_constraints[k][1] = ">="
        /\ constraint_coefficients[k + 1] * extra_constraints[k][2] > capacity

\* some variable costs nothing, pays, and has no "at most" bound
HasFreeProfit ==
    \E i \in range(Len(objective_coefficients)) :
        /\ constraint_coefficients[i + 1] = 0
        /\ objective_coefficients[i + 1] > 0
        /\ ~(i \in DOMAIN extra_constraints /\ extra_constraints[i][1] = "<=")

IsExample1 ==
    /\ objective_coefficients = Example1.objective_coefficients
    /\ constraint_coefficients = Example1.constraint_coefficients
    /\ capacity = Example1.capacity
    /\ extra_constraints = Example1.extra_constraints

\* C1: whenever solveProblem returns values and an objective z for a valid
\* problem, z is the profit of the returned values and no feasible assignment
\* of non-negative integers has a profit above z.
C1_Optimality ==
    (ReturnsValuesAndObjective /\ IsValidProblem) =>
        /\ solution.objective_variables =
               Dot(objective_coefficients, solution.decision_variables)
        /\ \A x \in Candidates :
               IsFeasibleAssignment(x) =>
                   Dot(objective_coefficients, x) <= solution.objective_variables

\* C2: whenever solveProblem returns values and an objective, every value is
\* an integer >= 0, meets its extra bound, and the weights fit the capacity.
C2_Feasibility ==
    (ReturnsValuesAndObjective /\ IsValidProblem) =>
        IsFeasibleAssignment(solution.decision_variables)

\* C3: for a problem with an "at least k" bound whose weight[i] * k exceeds
\* the capacity, solveProblem does not return values and an objective.
C3_InfeasibleOutcome ==
    (pc = "done" /\ IsValidProblem /\ AtLeastOverflows) =>
        ~ReturnsValuesAndObjective

\* C4: for a valid problem that has a feasible assignment and a zero-weight,
\* positive-profit variable with no "at most" bound, solveProblem does not
\* return values and an objective as if an optimum existed.
C4_UnboundedOutcome ==
    (/\ pc = "done"
     /\ IsValidProblem
     /\ HasFreeProfit
     /\ \E x \in Candidates : IsFeasibleAssignment(x)) =>
        ~ReturnsValuesAndObjective

\* C5: a problem with a negative weight, a negative capacity, lists of
\* different lengths or a bound on a variable that does not exist never
\* reaches solveProblem.
C5_InvalidRejected == pc = "solveProblem" => IsValidProblem

\* C8 as stated: on example 1 solveProblem returns the objective 180.
C8_Example1Objective180 ==
    (pc = "done" /\ IsExample1) => solution.objective_variables = 180

\* C8 as amended: on example 1 (profit [60,100,120], weight [10,20,30],
\* capacity 50, no extra bounds) the solver's status is Optimal and
\* solveProblem returns the values [5,0,0] with objective 300.
C8_Example1Objective300 ==
    (pc = "done" /\ IsExample1) =>
        /\ problem.status = "Optimal"
        /\ solution.decision_variables = <<5, 0, 0>>
        /\ solution.objective_variables = 300

C8_Example1Solved ==
    /\ pc = "done"
    /\ IsExample1
    /\ problem.status = "Optimal"
    /\ solution.objective_variables = 300

\* what one step of input collection may do to extra_constraints
C9_WriteStep ==
    IF pc = "constraint_value" /\ pc' = "ask_more"
    THEN /\ DOMAIN extra_constraints' = DOMAIN extra_constraints \cup {index}
         /\ extra_constraints'[index] = <<input_constraint_type, constraint'>>
         /\ \A k \in DOMAIN extra_constraints \ {index} :
                extra_constraints'[k] = extra_constraints[k]
    ELSE extra_constraints' = extra_constraints

\* C9: a completed write (the value prompt of the loop answered with an
\* integer) leaves the chosen variable with exactly the kind and threshold
\* just typed, whatever it held before, and every other entry as before;
\* every other step, a declined modification and an index that fails the
\* range check among them, leaves extra_constraints unchanged.
C9_LastWriteWins == [][C9_WriteStep]_vars

\* a write to one variable has completed while another variable holds a bound
C9_WriteCompleted ==
    /\ pc = "ask_more"
    /\ Cardinality(DOMAIN extra_constraints) >= 2
    /\ index \in DOMAIN extra_constraints
    /\ extra_constraints[index] = <<input_constraint_type, constraint>>

\* C10: in every state of input collection each key of extra_constraints is
\* the index of a variable and each stored kind is "<=" or ">=".
C10_BoundMapWellFormed ==
    \A k \in DOMAIN extra_constraints :
        /\ k \in range(Len(objective_coefficients))
        /\ extra_constraints[k][1] \in {"<=", ">="}

\* the ProblemInput is handed over with bounds set, the last index typed
\* having failed the range check
C10_OutOfRangeRejected ==
    /\ pc = "solveProblem"
    /\ DOMAIN extra_constraints # {}
    /\ IndexOutOfRange(index, objective_coefficients)

====
